---- MODULE Spec2Model ----
(***************************************************************************)
(* A model of openwx: the validated value types of src/types.rs            *)
(* (GeodeticCoords, WindDirection, CompassPoint), the serde mapping of the *)
(* OpenWeather response document, and the request pipeline of src/apis.rs  *)
(* and of the binary src/main.rs.                                          *)
(*                                                                         *)
(* f32 values are modelled exactly on a grid: a finite value is an integer *)
(* number of units of 2^-19, so every f32 in [16, 1024) is a grid point    *)
(* and the grid points below 16 are f32 values too.  NaN and the           *)
(* infinities are separate values.  Comparisons and the rounding of an     *)
(* addition follow IEEE 754 binary32 (round to nearest, ties to even).     *)
(***************************************************************************)
EXTENDS Integers, Sequences, FiniteSets, TLC

VARIABLES
    wpc,            \* position of the caller of the wind functions
    deg,            \* the raw heading
    wdir,           \* the result of WindDirection::new_checked
    cpoint,         \* the result of compass_point
    towards,        \* the result of blowing_towards
    impl,           \* "lib": src/apis.rs with src/types.rs; "bin": src/main.rs
    pc,             \* position of the program
    lat, lon,       \* the command line's --lat and --lon
    coords,         \* the result of GeodeticCoords::new_checked
    http,           \* the HTTP exchange
    response_text,  \* the body read from the response
    response_json,  \* the serde_json::Value parsed from the body
    outcome,        \* what the program ends with
    stages          \* the stages of the request run so far, in order

wvars == <<wpc, deg, wdir, cpoint, towards>>

pvars ==
    <<impl, pc, lat, lon, coords, http, response_text, response_json, outcome,
      stages>>

vars == <<wvars, pvars>>

(***************************************************************************)
(* Bounds of the model.                                                    *)
(***************************************************************************)
\* how many f32 neighbours on each side of a sector boundary are sampled
MaxUlps == 1

\* how far from a 64-bit limit the integers of a document are sampled
MaxOff == 1

(***************************************************************************)
(* f32                                                                     *)
(***************************************************************************)
\* grid units per 1.0
U == 2^19

Fin(n) == [k |-> "fin", v |-> n]

NaN == [k |-> "nan", v |-> 0]

PosInf == [k |-> "inf", v |-> 1]

NegInf == [k |-> "inf", v |-> -1]

\* a finite f32 beyond the grid (magnitude of 2^20 or more), by its sign
Big(sgn) == [k |-> "big", v |-> sgn]

Abs(n) == IF n < 0 THEN -n ELSE n

\* the position of a non-NaN value on the extended real line
Key(a) ==
    IF a.k = "inf" THEN a.v * 2^30
    ELSE IF a.k = "big" THEN a.v * (2^30 - 1)
    ELSE a.v

\* IEEE comparisons: every comparison with NaN is false
FLt(a, b) == a.k # "nan" /\ b.k # "nan" /\ Key(a) < Key(b)

FGt(a, b) == a.k # "nan" /\ b.k # "nan" /\ Key(a) > Key(b)

FGe(a, b) == a.k # "nan" /\ b.k # "nan" /\ Key(a) >= Key(b)

FLe(a, b) == a.k # "nan" /\ b.k # "nan" /\ Key(a) <= Key(b)

\* the spacing of f32 values, in grid units, in the binade of magnitude n
Ulp(n) ==
    IF Abs(n) < 32 * U THEN 1
    ELSE IF Abs(n) < 64 * U THEN 2
    ELSE IF Abs(n) < 128 * U THEN 4
    ELSE IF Abs(n) < 256 * U THEN 8
    ELSE IF Abs(n) < 512 * U THEN 16
    ELSE 32

\* the f32 nearest to the exact value n, ties to the even significand
RoundF32(n) ==
    LET m == Abs(n)
        u == Ulp(m)
        q == m \div u
        r == m % u
        up == (2 * r > u) \/ (2 * r = u /\ q % 2 = 1)
        res == IF up THEN (q + 1) * u ELSE q * u
    IN IF n < 0 THEN -res ELSE res

\* f32 addition
FAdd(a, b) ==
    IF a.k = "nan" \/ b.k = "nan" THEN NaN
    ELSE IF a.k = "inf" /\ b.k = "inf" THEN (IF a.v = b.v THEN a ELSE NaN)
    ELSE IF a.k = "inf" THEN a
    ELSE IF b.k = "inf" THEN b
    ELSE IF a.k = "big" THEN a
    ELSE IF b.k = "big" THEN b
    ELSE Fin(RoundF32(a.v + b.v))

\* f32 subtraction
FSub(a, b) == FAdd(a, IF b.k = "nan" THEN b ELSE [k |-> b.k, v |-> -b.v])

\* a decimal literal with one fractional digit, as the nearest f32
Tenths(t) == Fin(RoundF32((t * U) \div 10))

Deg(d) == Fin(d * U)

\* the grid value nearest to the decimal i.h with two fractional digits
Hundredths(i, h) == RoundF32(i * U + (h * U + 50) \div 100)

(***************************************************************************)
(* WindDirection and CompassPoint (src/types.rs)                           *)
(***************************************************************************)
CompassPoint ==
    << "North", "NorthNorthEast", "NorthEast", "EastNorthEast",
       "East", "EastSouthEast", "SouthEast", "SouthSouthEast",
       "South", "SouthSouthWest", "SouthWest", "WestSouthWest",
       "West", "WestNorthWest", "NorthWest", "NorthNorthWest" >>

WindDirection_new_checked(d) ==
    IF FLt(d, Deg(0)) \/ FGe(d, Deg(360))
    THEN [ok |-> FALSE, err |-> "InvalidDirection", val |-> d]
    ELSE [ok |-> TRUE, err |-> "none", val |-> d]

\* a range pattern lo..hi whose ends are tenths of a degree
InSectorClosed(h, lo, hi) == FGe(h, Tenths(lo)) /\ FLe(h, Tenths(hi))

InSector(h, lo, hi) == FGe(h, Tenths(lo)) /\ FLt(h, Tenths(hi))

compass_point(h) ==
    IF InSector(h, 0, 225) THEN "North"
    ELSE IF InSector(h, 225, 450) THEN "NorthNorthEast"
    ELSE IF InSector(h, 450, 675) THEN "NorthEast"
    ELSE IF InSector(h, 675, 900) THEN "EastNorthEast"
    ELSE IF InSector(h, 900, 1125) THEN "East"
    ELSE IF InSector(h, 1125, 1350) THEN "EastSouthEast"
    ELSE IF InSector(h, 1350, 1575) THEN "SouthEast"
    ELSE IF InSector(h, 1575, 1800) THEN "SouthSouthEast"
    ELSE IF InSector(h, 1800, 2025) THEN "South"
    ELSE IF InSector(h, 2025, 2250) THEN "SouthSouthWest"
    ELSE IF InSector(h, 2250, 2475) THEN "SouthWest"
    ELSE IF InSector(h, 2475, 2700) THEN "WestSouthWest"
    ELSE IF InSector(h, 2700, 2925) THEN "West"
    ELSE IF InSector(h, 2925, 3150) THEN "WestNorthWest"
    ELSE IF InSector(h, 3150, 3375) THEN "NorthWest"
    ELSE "NorthNorthWest"

NoResult == [ok |-> FALSE, err |-> "none", val |-> NaN]

blowing_towards_nowrap(h) == compass_point(FAdd(h, Deg(180)))

blowing_towards(h) ==
    LET tmp == FAdd(h, Deg(180))
        twd == IF FGe(tmp, Deg(360)) THEN FSub(tmp, Deg(360)) ELSE tmp
    IN compass_point(twd)

(***************************************************************************)
(* GeodeticCoords (src/types.rs, and the same code in src/main.rs)         *)
(***************************************************************************)
GeodeticCoords(la, lo) == [lat |-> la, lon |-> lo]

NoCoords == GeodeticCoords(NaN, NaN)

GeodeticCoords_new_checked(la, lo) ==
    IF FLt(la, Deg(-90)) \/ FGt(la, Deg(90))
    THEN [ok |-> FALSE, err |-> "LatitudeOutOfRange", arg |-> la, val |-> NoCoords]
    ELSE IF FLt(lo, Deg(-180)) \/ FGt(lo, Deg(180))
    THEN [ok |-> FALSE, err |-> "LongitudeOutOfRange", arg |-> lo, val |-> NoCoords]
    ELSE [ok |-> TRUE, err |-> "none", arg |-> NaN, val |-> GeodeticCoords(la, lo)]

(***************************************************************************)
(* 64-bit integers.  A value is an offset from a named anchor, since the   *)
(* values of interest lie next to a few limits:                            *)
(*   i64min = -2^63, tsmin = the least timestamp chrono represents,        *)
(*   i32min = -2^31, zero, i32lim = 2^31, tsmax = the greatest timestamp   *)
(*   chrono represents, i64lim = 2^63, wrapmin = 2^64 + tsmin,             *)
(*   u64lim = 2^64.                                                        *)
(* Offsets stay far smaller than the distance between two anchors.         *)
(***************************************************************************)
Anchors ==
    << "i64min", "tsmin", "i32min", "zero", "i32lim", "tsmax", "i64lim",
       "wrapmin", "u64lim" >>

Rank(a) == CHOOSE i \in 1..Len(Anchors) : Anchors[i] = a

At(a, o) == [a |-> a, o |-> o]

ILt(x, y) == Rank(x.a) < Rank(y.a) \/ (x.a = y.a /\ x.o < y.o)

ILe(x, y) == Rank(x.a) < Rank(y.a) \/ (x.a = y.a /\ x.o <= y.o)

\* `x as i64` of a u64 x: the value modulo 2^64 in [-2^63, 2^63)
AsI64(x) ==
    IF ILt(x, At("i64lim", 0)) THEN x
    ELSE IF x.a = "i64lim" THEN At("i64min", x.o)
    ELSE IF x.a = "wrapmin" THEN At("tsmin", x.o)
    ELSE At("zero", x.o)

(***************************************************************************)
(* JSON values (serde_json::Value) as far as the mapping looks at them: a  *)
(* number is an integer (PosInt, NegInt) or an f64.  An f64 is a grid      *)
(* value v plus e times an amount far below the f32 spacing, a finite      *)
(* value beyond the grid ("big"), or a finite value beyond f32::MAX        *)
(* ("huge").                                                               *)
(***************************************************************************)
F64(k, v, e) == [k |-> k, v |-> v, e |-> e]

JInt(a, o) == [t |-> "int", n |-> At(a, o), f |-> F64("fin", 0, 0)]

JFloat(k, v, e) == [t |-> "float", n |-> At("zero", 0), f |-> F64(k, v, e)]

JOther(t) == [t |-> t, n |-> At("zero", 0), f |-> F64("fin", 0, 0)]

\* `v as f32` of an f64
F32FromF64(x) ==
    IF x.k = "huge" THEN [k |-> "inf", v |-> x.v]
    ELSE IF x.k = "big" THEN Big(x.v)
    ELSE Fin(x.v)

\* `v as f32` of a u64 or an i64
F32FromInt(n) ==
    IF n.a = "zero" /\ Abs(n.o) < 1024 THEN Fin(n.o * U)
    ELSE IF ILt(n, At("zero", 0)) THEN Big(-1)
    ELSE Big(1)

Some(x) == [some |-> TRUE, v |-> x]

None(x) == [some |-> FALSE, v |-> x]

\* f32::deserialize
De_f32(j) ==
    IF j.t = "int" THEN [ok |-> TRUE, err |-> "none", val |-> F32FromInt(j.n)]
    ELSE IF j.t = "float" THEN [ok |-> TRUE, err |-> "none", val |-> F32FromF64(j.f)]
    ELSE [ok |-> FALSE, err |-> "invalid type", val |-> NaN]

\* Option<f32>::deserialize of a field that may be absent or null
De_opt_f32(j) ==
    IF j.t \in {"absent", "null"}
    THEN [ok |-> TRUE, err |-> "none", val |-> None(NaN)]
    ELSE [ok |-> De_f32(j).ok, err |-> De_f32(j).err, val |-> Some(De_f32(j).val)]

\* i32::deserialize
De_i32(j) ==
    IF j.t = "int" /\ ILe(At("i32min", 0), j.n) /\ ILt(j.n, At("i32lim", 0))
    THEN [ok |-> TRUE, err |-> "none", val |-> j.n]
    ELSE [ok |-> FALSE, err |-> "invalid type or value", val |-> At("zero", 0)]

\* i64::deserialize
De_i64(j) ==
    IF j.t = "int" /\ ILt(j.n, At("i64lim", 0))
    THEN [ok |-> TRUE, err |-> "none", val |-> j.n]
    ELSE [ok |-> FALSE, err |-> "invalid type or value", val |-> At("zero", 0)]

\* u64::deserialize
De_u64(j) ==
    IF j.t = "int" /\ ILe(At("zero", 0), j.n)
    THEN [ok |-> TRUE, err |-> "none", val |-> j.n]
    ELSE [ok |-> FALSE, err |-> "invalid type or value", val |-> At("zero", 0)]

\* chrono::FixedOffset::east_opt
FixedOffset_east_opt(secs) ==
    IF ILt(At("zero", -86400), secs) /\ ILt(secs, At("zero", 86400))
    THEN Some(secs)
    ELSE None(At("zero", 0))

\* chrono::DateTime::from_timestamp(secs, 0)
DateTime_from_timestamp(secs) ==
    IF ILe(At("tsmin", 0), secs) /\ ILe(secs, At("tsmax", 0))
    THEN Some(secs)
    ELSE None(At("zero", 0))

from_utc_shift(j) ==
    LET tz_shift == De_i32(j)
        fixed_offset == FixedOffset_east_opt(tz_shift.val)
    IN IF ~tz_shift.ok THEN tz_shift
       ELSE IF ~fixed_offset.some
       THEN [ok |-> FALSE, err |-> "invalid timezone shift from UTC",
             val |-> At("zero", 0)]
       ELSE [ok |-> TRUE, err |-> "none", val |-> fixed_offset.v]

from_raw_wind_direction(j) ==
    LET raw == De_f32(j)
        wind_dir == WindDirection_new_checked(raw.val)
    IN IF ~raw.ok THEN raw
       ELSE IF ~wind_dir.ok
       THEN [ok |-> FALSE, err |-> wind_dir.err, val |-> NaN]
       ELSE [ok |-> TRUE, err |-> "none", val |-> wind_dir.val]

from_unix_offset(j) ==
    LET secs_since_unix == De_u64(j)
        date_time == DateTime_from_timestamp(AsI64(secs_since_unix.val))
    IN IF ~secs_since_unix.ok THEN secs_since_unix
       ELSE IF ~date_time.some
       THEN [ok |-> FALSE, err |-> "invalid timestamp", val |-> At("zero", 0)]
       ELSE [ok |-> TRUE, err |-> "none", val |-> date_time.v]

\* Option<OWRain> and Option<OWSnow>: the struct's one field is r#_1h, whose
\* serde name is "_1h"
De_precip_key(p, name) ==
    IF p.t \in {"absent", "null"}
    THEN [ok |-> TRUE, err |-> "none", val |-> None(NaN)]
    ELSE IF p.t # "object"
    THEN [ok |-> FALSE, err |-> "invalid type", val |-> None(NaN)]
    ELSE IF p.key # name
    THEN [ok |-> FALSE, err |-> "missing field", val |-> None(NaN)]
    ELSE [ok |-> De_f32(p.val).ok, err |-> De_f32(p.val).err,
          val |-> Some(De_f32(p.val).val)]

De_precip_1h(p) == De_precip_key(p, "1h")

De_precip(p) == De_precip_key(p, "_1h")

(***************************************************************************)
(* The response document and its mapping to OWCurrentWeatherResponse.  A   *)
(* document is the set of required top-level keys it holds and the values  *)
(* the mapping converts; main, weather, visibility, clouds, dt, id, name   *)
(* and the other members of wind and sys are well typed when present,      *)
(* except that main may be a string.                                       *)
(***************************************************************************)
RequiredKeys ==
    << "coord", "weather", "main", "visibility", "wind", "clouds", "dt",
       "sys", "timezone", "id", "name" >>

KeySet == { RequiredKeys[i] : i \in 1..Len(RequiredKeys) }

NoSnapshot ==
    [coord |-> NoCoords, wind_deg |-> NaN, wind_gust |-> None(NaN),
     rain |-> None(NaN), snow |-> None(NaN),
     sunrise |-> At("zero", 0), sunset |-> At("zero", 0),
     timezone |-> At("zero", 0)]

\* the derived Deserialize of the response struct, with the field types of
\* src/types.rs or of src/main.rs: the values are visited in the order of the
\* document's keys (sorted), then the first absent required field is reported
MapDocument(doc, types) ==
    LET has(key) == key \in doc.keys
        f_lat == De_f32(doc.coord_lat)
        f_lon == De_f32(doc.coord_lon)
        f_rain == De_precip(doc.rain)
        f_snow == De_precip(doc.snow)
        f_sunrise == IF types = "types.rs" THEN from_unix_offset(doc.sunrise)
                     ELSE De_u64(doc.sunrise)
        f_sunset == IF types = "types.rs" THEN from_unix_offset(doc.sunset)
                    ELSE De_u64(doc.sunset)
        zone == IF types = "types.rs" THEN from_utc_shift(doc.timezone)
                ELSE De_i64(doc.timezone)
        wdeg == IF types = "types.rs" THEN from_raw_wind_direction(doc.wind_deg)
                ELSE De_f32(doc.wind_deg)
        gust == De_opt_f32(doc.wind_gust)
        errs ==
            << IF has("coord") /\ ~f_lat.ok THEN f_lat.err ELSE "",
               IF has("coord") /\ ~f_lon.ok THEN f_lon.err ELSE "",
               IF has("main") /\ doc.main # "object" THEN "invalid type" ELSE "",
               IF ~f_rain.ok THEN f_rain.err ELSE "",
               IF ~f_snow.ok THEN f_snow.err ELSE "",
               IF has("sys") /\ ~f_sunrise.ok THEN f_sunrise.err ELSE "",
               IF has("sys") /\ ~f_sunset.ok THEN f_sunset.err ELSE "",
               IF has("timezone") /\ ~zone.ok THEN zone.err ELSE "",
               IF has("wind") /\ ~wdeg.ok THEN wdeg.err ELSE "",
               IF has("wind") /\ ~gust.ok THEN gust.err ELSE "" >>
            \o [i \in 1..Len(RequiredKeys) |->
                   IF has(RequiredKeys[i]) THEN "" ELSE "missing field"]
        found == SelectSeq(errs, LAMBDA e : e # "")
    IN IF found # <<>>
       THEN [ok |-> FALSE, err |-> Head(found), val |-> NoSnapshot]
       ELSE [ok |-> TRUE, err |-> "none",
             val |-> [coord |-> GeodeticCoords(f_lat.val, f_lon.val),
                      wind_deg |-> wdeg.val, wind_gust |-> gust.val,
                      rain |-> f_rain.val, snow |-> f_snow.val,
                      sunrise |-> f_sunrise.val, sunset |-> f_sunset.val,
                      timezone |-> zone.val]]

\* serde_json::from_value::<OWCurrentWeatherResponse> with the types of
\* src/types.rs
from_value(doc) == MapDocument(doc, "types.rs")

\* serde_json::from_value::<OWCurrentWeatherResponse> with the types of
\* src/main.rs: deg is an f32, sunrise and sunset are u64, timezone is i64
main_from_value(doc) == MapDocument(doc, "main.rs")

(***************************************************************************)
(* The documents a response may carry: the sample document of the test     *)
(* parse_open_weather_response, and the documents that differ from it in   *)
(* one place.                                                              *)
(***************************************************************************)
NoPrecip == [t |-> "absent", key |-> "", val |-> JOther("absent")]

Precip(key, val) == [t |-> "object", key |-> key, val |-> val]

SampleDoc ==
    [keys |-> KeySet, main |-> "object", extra |-> TRUE,
     coord_lat |-> JFloat("fin", Hundredths(44, 34), -1),
     coord_lon |-> JFloat("fin", Hundredths(10, 99), 1),
     wind_deg |-> JInt("zero", 202),
     wind_gust |-> JFloat("fin", Hundredths(3, 51), -1),
     rain |-> NoPrecip, snow |-> NoPrecip,
     sunrise |-> JInt("zero", 1763100641),
     sunset |-> JInt("zero", 1763135429),
     timezone |-> JInt("zero", 3600)]

Offsets == (-MaxOff)..MaxOff

Latitudes ==
    { JFloat("fin", 90 * U, 0), JFloat("fin", 90 * U, 1), JInt("zero", 500),
      JFloat("fin", -90 * U - 4, 0), JFloat("huge", 1, 0), JOther("str") }

Longitudes == { JInt("zero", -181), JFloat("fin", -180 * U, 0) }

WireHeadings ==
    { JInt("zero", 0), JInt("zero", 359), JInt("zero", 360), JInt("zero", -1),
      JInt("zero", 400), JFloat("fin", 360 * U - 16, 0),
      JFloat("fin", 360 * U, -1), JFloat("huge", 1, 0), JOther("str") }

Gusts == { JOther("absent"), JOther("null"), JOther("str") }

Precips ==
    { Precip("1h", JFloat("fin", U \div 2, 0)),
      Precip("_1h", JFloat("fin", U \div 2, 0)),
      Precip("1h", JOther("str")),
      [t |-> "null", key |-> "", val |-> JOther("absent")],
      [t |-> "str", key |-> "", val |-> JOther("absent")] }

Timestamps ==
    { JInt(a, o) : a \in {"zero", "tsmax", "i64lim", "wrapmin"}, o \in Offsets }
    \cup { JInt("u64lim", -o) : o \in 1..MaxOff }
    \cup { JFloat("fin", U, 0), JOther("absent") }

Zones ==
    { JInt("zero", z + o) : z \in {-86400, 0, 86400}, o \in Offsets }
    \cup { JInt(a, o) : a \in {"i32min", "i32lim"}, o \in Offsets }
    \cup { JInt("zero", -28800), JFloat("fin", U, 0) }

Docs ==
    { SampleDoc, [SampleDoc EXCEPT !.main = "string"],
      [SampleDoc EXCEPT !.extra = FALSE] }
    \cup { [SampleDoc EXCEPT !.keys = KeySet \ {key}] : key \in KeySet }
    \cup { [SampleDoc EXCEPT !.coord_lat = x] : x \in Latitudes }
    \cup { [SampleDoc EXCEPT !.coord_lon = x] : x \in Longitudes }
    \cup { [SampleDoc EXCEPT !.wind_deg = x] : x \in WireHeadings }
    \cup { [SampleDoc EXCEPT !.wind_gust = x] : x \in Gusts }
    \cup { [SampleDoc EXCEPT !.rain = x] : x \in Precips }
    \cup { [SampleDoc EXCEPT !.snow = x] : x \in Precips }
    \cup { [SampleDoc EXCEPT !.sunrise = x] : x \in Timestamps }
    \cup { [SampleDoc EXCEPT !.sunset = x] : x \in Timestamps }
    \cup { [SampleDoc EXCEPT !.timezone = x] : x \in Zones }

(***************************************************************************)
(* Response bodies.  A body is the text of a document, possibly with       *)
(* insignificant white space, a text cut short, or no JSON at all.         *)
(***************************************************************************)
Text(syntax, ws, doc) == [syntax |-> syntax, ws |-> ws, doc |-> doc]

NoText == Text("none", FALSE, SampleDoc)

Bodies ==
    { Text("json", FALSE, d) : d \in Docs }
    \cup { Text("json", TRUE, SampleDoc), Text("truncated", FALSE, SampleDoc),
           Text("html", FALSE, SampleDoc) }

\* serde_json::from_str::<serde_json::Value>
serde_json_from_str(text) ==
    IF text.syntax = "json"
    THEN [ok |-> TRUE, err |-> "none", val |-> text.doc]
    ELSE [ok |-> FALSE, err |-> "syntax", val |-> SampleDoc]

(***************************************************************************)
(* HTTP exchanges: the connection fails, or a response arrives with a      *)
(* status and a body whose reading may fail.                               *)
(***************************************************************************)
Statuses == {200, 204, 304, 404, 500}

Exchange(connected, status, readable, body) ==
    [connected |-> connected, status |-> status, readable |-> readable,
     body |-> body]

NoExchange == Exchange(FALSE, 0, FALSE, NoText)

Exchanges ==
    { Exchange(TRUE, st, TRUE, b) : st \in Statuses, b \in Bodies }
    \cup { Exchange(TRUE, st, FALSE, Text("json", FALSE, SampleDoc)) :
             st \in Statuses }
    \cup { Exchange(FALSE, 0, FALSE, NoText) }

\* reqwest::blocking::Response::error_for_status: an error for 4xx and 5xx
error_for_status(status) == 400 <= status /\ status < 600

(***************************************************************************)
(* Outcomes.                                                               *)
(***************************************************************************)
Outcome(kind, input_json, parse_error, snapshot) ==
    [kind |-> kind, input_json |-> input_json, parse_error |-> parse_error,
     snapshot |-> snapshot]

NoJson == None(SampleDoc)

NoOutcome == Outcome("none", NoJson, "none", NoSnapshot)

Failure(kind) == Outcome(kind, NoJson, "none", NoSnapshot)

Snapshot(parsed) == Outcome("Ok", NoJson, "none", parsed)

ResponseParseError_without_json(json, err) ==
    Outcome("ResponseParseError", NoJson, err, NoSnapshot)

\* OpenWxError::ResponseParseError { input_json, parse_error }
ResponseParseError(json, err) ==
    Outcome("ResponseParseError", Some(json), err, NoSnapshot)

Ran(stage, ok) == [stage |-> stage, ok |-> ok]

(***************************************************************************)
(* The program: the coordinate is checked, then the request runs.          *)
(***************************************************************************)
CliAngles(limit) ==
    { Deg(limit), Deg(-limit), Deg(33), NaN, PosInf }
    \cup { Fin(limit * U + j * Ulp(limit * U)) : j \in 1..MaxUlps }
    \cup { Fin(-limit * U - j * Ulp(limit * U)) : j \in 1..MaxUlps }

PInit ==
    /\ impl \in {"lib", "bin"}
    /\ pc = "args"
    /\ lat \in CliAngles(90) \cup {Deg(180)}
    /\ lon \in CliAngles(180) \cup {Deg(190), Deg(-117)}
    /\ coords = GeodeticCoords_new_checked(Deg(0), Deg(0))
    /\ http = NoExchange
    /\ response_text = NoText
    /\ response_json = NoJson
    /\ outcome = NoOutcome
    /\ stages = <<>>

\* GeodeticCoords::new_checked(args.lat, args.lon)?
NewChecked ==
    /\ pc = "args"
    /\ coords' = GeodeticCoords_new_checked(lat, lon)
    /\ IF coords'.ok
       THEN pc' = "fetch" /\ UNCHANGED outcome
       ELSE pc' = "done" /\ outcome' = Failure(coords'.err)
    /\ UNCHANGED <<impl, lat, lon, http, response_text, response_json, stages>>
    /\ UNCHANGED wvars

\* src/apis.rs: reqwest::blocking::get(url)?.error_for_status()
\*     .map_err(OpenWxError::HttpGetError)?.text()?
HttpGet ==
    /\ pc = "fetch"
    /\ impl = "lib"
    /\ \E x \in Exchanges :
        /\ http' = x
        /\ IF ~x.connected \/ error_for_status(x.status) \/ ~x.readable
           THEN /\ pc' = "done"
                /\ outcome' = Failure("HttpGetError")
                /\ stages' = Append(stages, Ran("fetch", FALSE))
                /\ UNCHANGED response_text
           ELSE /\ pc' = "parse"
                /\ response_text' = x.body
                /\ stages' = Append(stages, Ran("fetch", TRUE))
                /\ UNCHANGED outcome
    /\ UNCHANGED <<impl, lat, lon, coords, response_json>>
    /\ UNCHANGED wvars

\* a parse stage that goes on to the mapping with Value::Null after a failure
ParseJson_goes_on ==
    /\ pc = "parse"
    /\ impl = "lib"
    /\ LET parsed == serde_json_from_str(response_text)
       IN /\ response_json' = Some(parsed.val)
          /\ pc' = "map"
          /\ stages' = Append(stages, Ran("parse", parsed.ok))
          /\ UNCHANGED outcome
    /\ UNCHANGED <<impl, lat, lon, coords, http, response_text>>
    /\ UNCHANGED wvars

\* src/apis.rs: serde_json::from_str(&response_text)?
ParseJson ==
    /\ pc = "parse"
    /\ impl = "lib"
    /\ LET parsed == serde_json_from_str(response_text)
       IN IF parsed.ok
          THEN /\ response_json' = Some(parsed.val)
               /\ pc' = "map"
               /\ stages' = Append(stages, Ran("parse", TRUE))
               /\ UNCHANGED outcome
          ELSE /\ outcome' = Failure("MalformedResponseError")
               /\ pc' = "done"
               /\ stages' = Append(stages, Ran("parse", FALSE))
               /\ UNCHANGED response_json
    /\ UNCHANGED <<impl, lat, lon, coords, http, response_text>>
    /\ UNCHANGED wvars

\* src/apis.rs: serde_json::from_value(response_json.clone()).map_err(..)?
MapTyped ==
    /\ pc = "map"
    /\ impl = "lib"
    /\ LET parsed == from_value(response_json.v)
       IN IF parsed.ok
          THEN /\ outcome' = Snapshot(parsed.val)
               /\ stages' = Append(stages, Ran("map", TRUE))
          ELSE /\ outcome' = ResponseParseError(response_json.v, parsed.err)
               /\ stages' = Append(stages, Ran("map", FALSE))
    /\ pc' = "done"
    /\ UNCHANGED <<impl, lat, lon, coords, http, response_text, response_json>>
    /\ UNCHANGED wvars

\* src/main.rs: reqwest::blocking::get(url)?.text()?
MainHttpGet ==
    /\ pc = "fetch"
    /\ impl = "bin"
    /\ \E x \in Exchanges :
        /\ http' = x
        /\ IF ~x.connected \/ ~x.readable
           THEN /\ pc' = "done"
                /\ outcome' = Failure("reqwest::Error")
                /\ stages' = Append(stages, Ran("fetch", FALSE))
                /\ UNCHANGED response_text
           ELSE /\ pc' = "parse"
                /\ response_text' = x.body
                /\ stages' = Append(stages, Ran("fetch", TRUE))
                /\ UNCHANGED outcome
    /\ UNCHANGED <<impl, lat, lon, coords, response_json>>
    /\ UNCHANGED wvars

\* src/main.rs: serde_json::from_str(&response)?
MainParseJson ==
    /\ pc = "parse"
    /\ impl = "bin"
    /\ LET parsed == serde_json_from_str(response_text)
       IN IF parsed.ok
          THEN /\ response_json' = Some(parsed.val)
               /\ pc' = "map"
               /\ stages' = Append(stages, Ran("parse", TRUE))
               /\ UNCHANGED outcome
          ELSE /\ outcome' = Failure("serde_json::Error")
               /\ pc' = "done"
               /\ stages' = Append(stages, Ran("parse", FALSE))
               /\ UNCHANGED response_json
    /\ UNCHANGED <<impl, lat, lon, coords, http, response_text>>
    /\ UNCHANGED wvars

\* src/main.rs: serde_json::from_value(response_json)?
MainMapTyped ==
    /\ pc = "map"
    /\ impl = "bin"
    /\ LET parsed == main_from_value(response_json.v)
       IN IF parsed.ok
          THEN /\ outcome' = Snapshot(parsed.val)
               /\ stages' = Append(stages, Ran("map", TRUE))
          ELSE /\ outcome' = Outcome("serde_json::Error", NoJson, parsed.err,
                                     NoSnapshot)
               /\ stages' = Append(stages, Ran("map", FALSE))
    /\ pc' = "done"
    /\ UNCHANGED <<impl, lat, lon, coords, http, response_text, response_json>>
    /\ UNCHANGED wvars

Init ==
    /\ PInit
    /\ wpc = "idle"
    /\ deg = NaN
    /\ wdir = NoResult
    /\ cpoint = "none"
    /\ towards = "none"

Next ==
    \/ NewChecked
    \/ HttpGet
    \/ ParseJson
    \/ MapTyped
    \/ MainHttpGet
    \/ MainParseJson
    \/ MainMapTyped

Spec == Init /\ [][Next]_vars

(***************************************************************************)
(* The headings the wind functions are applied to: every sector boundary   *)
(* with its f32 neighbours, the headings of the documentation, and values  *)
(* outside the valid range.                                                *)
(***************************************************************************)
\* the width of a sector, 22.5 degrees, in grid units
Sector == 45 * (U \div 2)

Boundary(i) == i * Sector

\* the j-th f32 below and above a boundary (the grid's smallest step at 0)
Below(i, j) == Boundary(i) - j * Ulp(Boundary(i) - 1)

Above(i, j) == Boundary(i) + j * Ulp(Boundary(i))

Headings ==
    { Fin(Boundary(i)) : i \in 0..17 }
    \cup { Fin(Below(i, j)) : i \in 0..17, j \in 1..MaxUlps }
    \cup { Fin(Above(i, j)) : i \in 0..17, j \in 1..MaxUlps }
    \cup { Deg(202), Deg(22), Deg(90), Deg(-1), Deg(400), Tenths(3599),
           Tenths(1), NaN, PosInf, NegInf }

(***************************************************************************)
(* The wind functions applied to one heading.                              *)
(***************************************************************************)
WInit ==
    /\ wpc = "input"
    /\ deg \in Headings
    /\ wdir = NoResult
    /\ cpoint = "none"
    /\ towards = "none"
    /\ impl = "lib"
    /\ pc = "idle"
    /\ lat = NaN
    /\ lon = NaN
    /\ coords = GeodeticCoords_new_checked(Deg(0), Deg(0))
    /\ http = NoExchange
    /\ response_text = NoText
    /\ response_json = NoJson
    /\ outcome = NoOutcome
    /\ stages = <<>>

\* WindDirection::new_checked(deg)
WindNewChecked ==
    /\ wpc = "input"
    /\ wdir' = WindDirection_new_checked(deg)
    /\ wpc' = "checked"
    /\ UNCHANGED <<deg, cpoint, towards, pvars>>

\* self.compass_point() on the constructed WindDirection
CompassPointCall ==
    /\ wpc = "checked"
    /\ wdir.ok
    /\ cpoint' = compass_point(wdir.val)
    /\ wpc' = "origin"
    /\ UNCHANGED <<deg, wdir, towards, pvars>>

\* self.blowing_towards() on the constructed WindDirection
BlowingTowardsCall ==
    /\ wpc = "origin"
    /\ towards' = blowing_towards(wdir.val)
    /\ wpc' = "done"
    /\ UNCHANGED <<deg, wdir, cpoint, pvars>>

WNext == WindNewChecked \/ CompassPointCall \/ BlowingTowardsCall

SpecWind == WInit /\ [][WNext]_vars

(***************************************************************************)
(* Claims about the wind functions, checked under SpecWind.                *)
(***************************************************************************)
\* d is a number of the real interval [0, 360)
InRealRange(d) == d.k = "fin" /\ 0 <= d.v /\ d.v < 360 * U

\* the position of a compass point on the rose, 0 for North
RoseIndex(p) == CHOOSE i \in 0..15 : CompassPoint[i + 1] = p

\* C2: WindDirection::new_checked(deg) succeeds exactly when 0 <= deg < 360;
\* a success holds deg and a failure is InvalidDirection carrying deg.
C2_SucceedsExactlyInRange ==
    wpc # "input" =>
        /\ wdir.ok <=> InRealRange(deg)
        /\ wdir.val = deg
        /\ ~wdir.ok => wdir.err = "InvalidDirection"

\* C3: on every heading h of [0, 360) compass_point returns the point number
\* floor(h / 22.5) of the clockwise rose, so the sectors are the half-open
\* intervals [22.5 k, 22.5 (k + 1)), and each of the 16 points is returned
\* for some heading.
C3_SixteenSectors ==
    /\ (wpc \in {"origin", "done"} /\ InRealRange(wdir.val)) =>
           cpoint = CompassPoint[(wdir.val.v \div Sector) + 1]
    /\ \A i \in 1..16 : \E h \in Headings :
           InRealRange(h) /\ compass_point(h) = CompassPoint[i]

\* a heading exactly on a sector's lower boundary belongs to that sector
C3_Witness ==
    /\ wpc = "origin"
    /\ wdir.val = Fin(Boundary(9))
    /\ cpoint = "SouthSouthWest"

\* C4 as stated: heading 202 comes from SouthSouthWest and blows towards
\* NorthNorthEast; heading 0 is North and heading 359.9 is NorthNorthWest.
C4_Original ==
    wpc = "done" =>
        /\ deg = Deg(202) => cpoint = "SouthSouthWest" /\ towards = "NorthNorthEast"
        /\ deg = Deg(0) => cpoint = "North"
        /\ deg = Tenths(3599) => cpoint = "NorthNorthWest"

\* C4 as amended: heading 202 lies in [180, 202.5), so it comes from South
\* and blows towards North; heading 0 is North and heading 359.9 is
\* NorthNorthWest.
C4_SampleHeadings ==
    wpc = "done" =>
        /\ deg = Deg(202) => cpoint = "South" /\ towards = "North"
        /\ deg = Deg(0) => cpoint = "North"
        /\ deg = Tenths(3599) => cpoint = "NorthNorthWest"

C4_Witness == wpc = "done" /\ deg = Deg(202) /\ towards = "North"

\* C5: for every heading h of [0, 360), blowing_towards(h) is the compass
\* point of (h + 180) mod 360, which is the point 8 positions away from
\* compass_point(h) on the rose.
C5_HalfTurn ==
    (wpc = "done" /\ InRealRange(wdir.val)) =>
        /\ towards =
             CompassPoint[(((wdir.val.v + 180 * U) % (360 * U)) \div Sector) + 1]
        /\ towards = CompassPoint[((RoseIndex(cpoint) + 8) % 16) + 1]

(***************************************************************************)
(* Claims about the program, checked under Spec.                           *)
(***************************************************************************)
\* x is a number of the real interval [-limit, limit]
InRealBounds(x, limit) == x.k = "fin" /\ -limit * U <= x.v /\ x.v <= limit * U

\* C1: new_checked(lat, lon) fails with LatitudeOutOfRange carrying lat when
\* lat is outside [-90, 90], whatever lon is; otherwise fails with
\* LongitudeOutOfRange carrying lon when lon is outside [-180, 180];
\* otherwise succeeds and holds exactly lat and lon.
C1_DecisionOrder ==
    pc # "args" =>
        /\ ~InRealBounds(lat, 90) =>
               ~coords.ok /\ coords.err = "LatitudeOutOfRange" /\ coords.arg = lat
        /\ (InRealBounds(lat, 90) /\ ~InRealBounds(lon, 180)) =>
               ~coords.ok /\ coords.err = "LongitudeOutOfRange" /\ coords.arg = lon
        /\ (InRealBounds(lat, 90) /\ InRealBounds(lon, 180)) =>
               coords.ok /\ coords.val = GeodeticCoords(lat, lon)

\* C6: a response with a status outside 200..299 ends in a transport error,
\* whatever its body is.
C6_NonSuccessIsTransportError ==
    (pc = "done" /\ http.connected /\ ~(200 <= http.status /\ http.status < 300)) =>
        outcome.kind \in {"HttpGetError", "reqwest::Error"}

\* the ways the mapping fails that C7 lists, stated on the document
ListedReason(doc) ==
    \/ "main" \notin doc.keys
    \/ doc.main # "object"
    \/ doc.wind_deg.t \notin {"int", "float"}
    \/ ~InRealRange(De_f32(doc.wind_deg).val)
    \/ doc.timezone.t # "int"
    \/ ~(ILt(At("zero", -86400), doc.timezone.n)
         /\ ILt(doc.timezone.n, At("zero", 86400)))
    \/ \E j \in {doc.sunrise, doc.sunset} :
           \/ j.t # "int"
           \/ ILt(j.n, At("zero", 0))
           \/ ILt(At("tsmax", 0), j.n) /\ ILt(j.n, At("i64lim", 0))

\* C7: when the body is valid JSON and the mapping to the typed snapshot
\* fails, open_weather_request of src/apis.rs returns ResponseParseError with
\* the JSON value parsed from the body and the mapping's error, and neither
\* MalformedResponseError nor a snapshot; each listed reason makes it fail.
C7_ShapeErrorKeepsJson ==
    (impl = "lib" /\ pc = "done" /\ response_json.some) =>
        /\ ~from_value(response_json.v).ok =>
               /\ outcome.kind = "ResponseParseError"
               /\ outcome.input_json = Some(serde_json_from_str(response_text).val)
               /\ outcome.parse_error = from_value(response_json.v).err
        /\ ListedReason(response_json.v) => outcome.kind = "ResponseParseError"

\* a document without `main` ends in ResponseParseError
C7_Witness ==
    /\ impl = "lib"
    /\ pc = "done"
    /\ response_json.some
    /\ response_json.v.keys = KeySet \ {"main"}
    /\ outcome.kind = "ResponseParseError"

StageOrder == << "fetch", "parse", "map" >>

\* C8: the request of src/apis.rs runs fetch, parse, map in this order, each
\* at most once, stops at the first stage that fails and ends in exactly
\* one outcome: HttpGetError when the fetch fails, MalformedResponseError
\* when the body is not JSON, ResponseParseError when the mapping fails, and
\* the snapshot only when all three stages succeeded.
C8_LinearPipeline ==
    impl = "lib" =>
        /\ Len(stages) <= 3
        /\ \A i \in 1..Len(stages) : stages[i].stage = StageOrder[i]
        /\ \A i \in 1..(Len(stages) - 1) : stages[i].ok
        /\ (outcome.kind = "none") <=> (pc # "done")
        /\ (pc = "done" /\ stages # <<>>) =>
               LET last == stages[Len(stages)]
               IN /\ last.ok => Len(stages) = 3 /\ outcome.kind = "Ok"
                  /\ (~last.ok /\ last.stage = "fetch") =>
                         outcome.kind = "HttpGetError"
                  /\ (~last.ok /\ last.stage = "parse") =>
                         /\ outcome.kind = "MalformedResponseError"
                         /\ response_text.syntax # "json"
                  /\ (~last.ok /\ last.stage = "map") =>
                         outcome.kind = "ResponseParseError"
        /\ outcome.kind = "Ok" =>
               /\ Len(stages) = 3
               /\ \A i \in 1..3 : stages[i].ok
               /\ response_text.syntax = "json"
               /\ from_value(response_json.v).ok

\* the request stopped at the parse stage
C8_Witness ==
    /\ impl = "lib"
    /\ pc = "done"
    /\ Len(stages) = 2
    /\ outcome.kind = "MalformedResponseError"

\* the mapping the implementation uses
MapOf(i, doc) == IF i = "lib" THEN from_value(doc) ELSE main_from_value(doc)

\* p is an object with the wire key "1h" and a number
Has1h(p) == p.t = "object" /\ p.key = "1h" /\ p.val.t \in {"int", "float"}

\* C9: a document that is valid apart from rain and snow parses when both
\* are absent, and then the snapshot has no precipitation; it parses too
\* when rain or snow is an object with the wire key "1h", and then the
\* snapshot carries that value.
C9_PrecipitationOptional ==
    LET doc == response_json.v
    IN (/\ pc = "done"
        /\ response_json.some
        /\ MapOf(impl, [doc EXCEPT !.rain = NoPrecip, !.snow = NoPrecip]).ok
        /\ \A p \in {doc.rain, doc.snow} : p.t = "absent" \/ Has1h(p)) =>
           /\ outcome.kind = "Ok"
           /\ outcome.snapshot.rain = De_precip_1h(doc.rain).val
           /\ outcome.snapshot.snow = De_precip_1h(doc.snow).val

\* C10: every coordinate the program holds has its latitude in [-90, 90] and
\* its longitude in [-180, 180], whether new_checked made it or it is the
\* coord of a parsed response.
C10_CoordInvariant ==
    /\ (pc # "args" /\ coords.ok) =>
           InRealBounds(coords.val.lat, 90) /\ InRealBounds(coords.val.lon, 180)
    /\ outcome.kind = "Ok" =>
           /\ InRealBounds(outcome.snapshot.coord.lat, 90)
           /\ InRealBounds(outcome.snapshot.coord.lon, 180)

\* j is a wire value of sunrise or sunset: an unsigned 64-bit number
IsU64(j) == j.t = "int" /\ ILe(At("zero", 0), j.n)

\* C11: for every sunrise and sunset wire value s the mapping of src/types.rs
\* either fails with "invalid timestamp" or stores the instant s seconds
\* after the epoch; a value of 2^63 or more is rejected and never stored as
\* another instant.
C11_TimestampExact ==
    LET doc == response_json.v
    IN (/\ impl = "lib"
        /\ pc = "done"
        /\ response_json.some
        /\ IsU64(doc.sunrise)
        /\ IsU64(doc.sunset)
        /\ from_value([doc EXCEPT !.sunrise = SampleDoc.sunrise,
                                  !.sunset = SampleDoc.sunset]).ok) =>
           /\ \/ /\ outcome.kind = "ResponseParseError"
                 /\ outcome.parse_error = "invalid timestamp"
              \/ /\ outcome.kind = "Ok"
                 /\ outcome.snapshot.sunrise = doc.sunrise.n
                 /\ outcome.snapshot.sunset = doc.sunset.n
           /\ \A j \in {doc.sunrise, doc.sunset} :
                  ILe(At("i64lim", 0), j.n) => outcome.kind = "ResponseParseError"

====
